---- MODULE Spec2Model ----
(***************************************************************************)
(* Model of the plan executor of                                           *)
(* enhancements/instruments/planning/execute_implementation_plan.py:       *)
(* PlanExecutor.execute and everything it calls (the parse outcome, the    *)
(* status writer, context loading, the dependency resolver, the scheduler  *)
(* loop, the synchronous and the concurrent group runner, the task         *)
(* runner).                                                                *)
(*                                                                         *)
(* One behaviour is one call of execute() on a fresh PlanExecutor.  The    *)
(* inputs (the plan file, the batch size, the dry-run flag) are chosen in  *)
(* Init; the outcome of every external command is chosen when the command  *)
(* is run.  The scheduler thread is described by pc; the thread running    *)
(* _execute_group for group g (the scheduler itself for a batch of one, a  *)
(* pool worker otherwise) by run[g], wtask[g] and wstep[g].                *)
(*                                                                         *)
(* Plans with several groups are run with the plain text, no context       *)
(* command and no dry run; the text, the context commands and the dry-run  *)
(* flag vary over the plans with at most one group.                        *)
(*                                                                         *)
(* SpecTask runs one-group plans whose tasks have any list of steps;       *)
(* SpecText applies the status writer to any short text; SpecMain adds     *)
(* main() and the exit status; SpecParse runs _parse_tasks on lines of     *)
(* text; SpecLive is Spec with progress; SpecRaise is Spec with pool       *)
(* workers that may raise (a failing print of _log).  Spec itself assumes  *)
(* that _log does not raise.                                               *)
(***************************************************************************)
EXTENDS Integers, Sequences, FiniteSets, TLC

\* ------------------------------------------------------------------ bounds
MaxGroups == 4
MaxBatch == 2
MaxTasks == 2
MaxContext == 2

\* ----------------------------------------------------------- small helpers
Range(s) == {s[i] : i \in DOMAIN s}

Min(a, b) == IF a < b THEN a ELSE b

Max(a, b) == IF a > b THEN a ELSE b

\* seq[:n] of Python: a negative n counts from the end
PySlicePrefix(s, n) ==
    IF n >= 0 THEN SubSeq(s, 1, Min(n, Len(s)))
    ELSE SubSeq(s, 1, Max(Len(s) + n, 0))

\* the subsequence of s, in order, of the elements that are in keep
RECURSIVE Filter(_, _)
Filter(s, keep) ==
    IF s = <<>> THEN <<>>
    ELSE IF Head(s) \in keep THEN <<Head(s)>> \o Filter(Tail(s), keep)
    ELSE Filter(Tail(s), keep)

\* ------------------------------------------------------------- TaskStatus
PENDING == "pending"
IN_PROGRESS == "in_progress"
COMPLETED == "completed"
FAILED == "failed"
SKIPPED == "skipped"
TaskStatus == {PENDING, IN_PROGRESS, COMPLETED, FAILED, SKIPPED}

\* ------------------------------------------------ the text of a plan file
\* A text is a sequence of tokens: "M" is the literal **Status:**, "sp" and
\* "nl" are whitespace, a status word or "w" is a run of word characters
\* that forms one word together with its word neighbours, "o" is any other
\* character.
StatusWords == {"DRAFT", "IN_PROGRESS", "COMPLETED", "FAILED"}
WordTokens == StatusWords \cup {"w"}
SpaceTokens == {"sp", "nl"}
Tokens == {"M", "o"} \cup SpaceTokens \cup WordTokens

\* index of the first token at or after i that is not whitespace
RECURSIVE SkipSpace(_, _)
SkipSpace(text, i) ==
    IF i <= Len(text) /\ text[i] \in SpaceTokens THEN SkipSpace(text, i + 1)
    ELSE i

\* index of the first token at or after i that is not a word character
RECURSIVE SkipWord(_, _)
SkipWord(text, i) ==
    IF i <= Len(text) /\ text[i] \in WordTokens THEN SkipWord(text, i + 1)
    ELSE i

\* re.sub(r'\*\*Status:\*\*\s*\w+', f'**Status:** {status}', content)
RECURSIVE SubStatusWord(_, _, _)
SubStatusWord(text, i, status) ==
    IF i > Len(text) THEN <<>>
    ELSE IF text[i] = "M"
              /\ SkipSpace(text, i + 1) <= Len(text)
              /\ text[SkipSpace(text, i + 1)] \in WordTokens
         THEN <<"M", "sp", status>>
                  \o SubStatusWord(text, SkipWord(text, SkipSpace(text, i + 1)), status)
         ELSE <<text[i]>> \o SubStatusWord(text, i + 1, status)

\* re.sub(r'\*\*Status:\*\*\s*DRAFT', f'**Status:** {status}', content)
RECURSIVE SubStatusDraft(_, _, _)
SubStatusDraft(text, i, status) ==
    IF i > Len(text) THEN <<>>
    ELSE IF text[i] = "M"
              /\ SkipSpace(text, i + 1) <= Len(text)
              /\ text[SkipSpace(text, i + 1)] = "DRAFT"
         THEN <<"M", "sp", status>>
                  \o SubStatusDraft(text, SkipSpace(text, i + 1) + 1, status)
         ELSE <<text[i]>> \o SubStatusDraft(text, i + 1, status)

\* the text _update_plan_status writes to the plan file
RewriteStatus(text, status) ==
    SubStatusDraft(SubStatusWord(text, 1, status), 1, status)


\* ------------------------------------------------------------------ inputs
\* A step is the text of a checklist line, abstracted to its leading word.
StepTexts == {"python", "review"}

\* a test that takes every step for a command
IsCommandStepAlways(step) == TRUE

\* the test of _execute_task that decides whether a step is run as a command
IsCommandStep(step) == step \in {"$", "git", "npm", "python"}

\* the tasks a plan may hold: steps and a verify command ("" when absent)
TaskShapes ==
    { [steps |-> <<"python">>, verify |-> "python"],
      [steps |-> <<"review">>, verify |-> ""] }

GroupNames == {"General", "Core"}

\* outcome of subprocess.run: exit status 0, a nonzero exit status, or an
\* exception (TimeoutExpired, OSError)
Outcomes == {"ok", "nonzero", "raised"}

\* the texts of a plan file, as far as the status marker is concerned
PlainText == <<"M", "sp", "DRAFT", "nl", "o">>

PlanTexts == {PlainText, <<"o", "nl">>}

SeqsUpTo(S, n) == UNION {[1..k -> S] : k \in 0..n}

\* the tasks under group g of a Tasks section whose i-th task (in document
\* order) stands under the group heading owner[i]
TasksUnder(g, owner, shape) ==
    LET mine == Filter([i \in DOMAIN owner |-> i], {i \in DOMAIN owner : owner[i] = g})
    IN  [j \in DOMAIN mine |-> shape]

\* the groups a Tasks section parses to: the implicit General group first,
\* then one group per sub-heading; at most MaxTasks tasks in all, of one shape
ParsedGroups ==
    UNION { UNION { UNION {
        { [g \in 1..n |-> [name |-> names[g],
                           tasks |-> TasksUnder(g, owner, shape)]] :
            shape \in TaskShapes } :
        owner \in { o \in SeqsUpTo(1..n, MaxTasks) :
                      \A i \in DOMAIN o : i > 1 => o[i - 1] <= o[i] } } :
        names \in { ns \in [1..n -> GroupNames] : ns[1] = "General" } } :
        n \in 1..MaxGroups }

BatchSizes == 0..MaxBatch

\* -------------------------------------------------------------------- state
VARIABLES
    plan_file,          \* the plan on disk: exists, text, has_tasks, context, groups
    batch_size,         \* PlanExecutor.batch_size
    dry_run,            \* PlanExecutor.dry_run
    pc,                 \* where the scheduler thread is in execute()
    content,            \* PlanParser.content
    context_loading,    \* PlanParser.context_loading
    context_index,      \* position of the loop of _execute_context_loading
    task_groups,        \* PlanParser.task_groups: name, tasks, dependencies
    gstatus,            \* TaskGroup.status, by group index
    tstatus,            \* Task.status, by group index and task index
    terror,             \* Task.error, by group index and task index
    completed_groups,   \* PlanExecutor.completed_groups
    failed_groups,      \* PlanExecutor.failed_groups
    iteration,          \* the loop counter of _execute_task_groups
    batch,              \* the batch of the current iteration (group indices)
    run,                \* the call of _execute_group(g): idle, queued, running, returned,
                        \* cancelled, raised
    group_result,       \* the value _execute_group(g) returned
    wtask,              \* index of the task _execute_group(g) is at
    wstep,              \* index of the step _execute_task is at (0: not entered)
    success,            \* the value _execute_task_groups returned
    result,             \* the value execute() returned ("none" before)
    status_writes,      \* history: the statuses written by _update_plan_status
    commands_run,       \* history: number of external commands run so far
    left_out,           \* history: (group, batch) pairs of ready groups a batch left out
    context_log,        \* history: the context-loading commands run, with outcome
    command_log,        \* history: per group, the step and verify commands run
    error_message,      \* the error _execute_task_groups logged before returning
    batches_run,        \* history: number of batches handed to a group runner
    args,               \* the command line main() parsed: is --plan, is --list given
    exit_status         \* the exit status of the process (-1 while it runs)

vars == <<plan_file, batch_size, dry_run, pc, content, context_loading,
          context_index, task_groups, gstatus, tstatus, terror,
          completed_groups, failed_groups, iteration, batch, run,
          group_result, wtask, wstep, success, result, status_writes,
          commands_run, left_out, context_log, command_log, error_message,
          batches_run, args, exit_status>>

inputs == <<plan_file, batch_size, dry_run>>

parsed == <<content, context_loading, task_groups>>

\* what main() holds outside the executor
process == <<args, exit_status>>

workers == <<gstatus, tstatus, terror, completed_groups, failed_groups, run,
             group_result, wtask, wstep>>

Groups == DOMAIN task_groups

Tasks(g) == DOMAIN task_groups[g].tasks

\* a plan file that exists has a text; one that has a Tasks section describes
\* at least the implicit group; a missing file describes nothing
PlanFiles ==
    { [exists |-> FALSE, text |-> <<>>, has_tasks |-> FALSE,
       context |-> <<>>, groups |-> <<>>] }
    \cup
    [exists : {TRUE}, text : PlanTexts, has_tasks : {FALSE},
     context : SeqsUpTo({"cmd"}, MaxContext), groups : {<<>>}]
    \cup
    [exists : {TRUE}, text : PlanTexts, has_tasks : {TRUE},
     context : SeqsUpTo({"cmd"}, MaxContext), groups : ParsedGroups]

\* PlanExecutor.__init__ and PlanParser.__init__
Init ==
    /\ args = [plan |-> TRUE, list |-> FALSE]
    /\ plan_file \in PlanFiles
    /\ batch_size \in BatchSizes
    /\ dry_run \in BOOLEAN
    /\ \/ Len(plan_file.groups) <= 1
       \/ /\ plan_file.text = PlainText
          /\ plan_file.context = <<>>
          /\ ~dry_run
    /\ pc = "parse"
    /\ content = <<>>
    /\ context_loading = <<>>
    /\ context_index = 0
    /\ task_groups = <<>>
    /\ gstatus = <<>>
    /\ tstatus = <<>>
    /\ terror = <<>>
    /\ completed_groups = {}
    /\ failed_groups = {}
    /\ iteration = 0
    /\ batch = <<>>
    /\ run = <<>>
    /\ group_result = <<>>
    /\ wtask = <<>>
    /\ wstep = <<>>
    /\ success = "none"
    /\ result = "none"
    /\ status_writes = <<>>
    /\ commands_run = 0
    /\ left_out = {}
    /\ context_log = <<>>
    /\ command_log = <<>>
    /\ error_message = "none"
    /\ batches_run = 0
    /\ exit_status = -1

\* ---------------------------------------------------------------- parsing
\* a parse that creates the implicit group before looking for the Tasks
\* section
ParseTasksImplicitGroup(file) ==
    IF ~file.has_tasks
    THEN <<[name |-> "General", tasks |-> <<>>, dependencies |-> <<>>]>>
    ELSE [g \in DOMAIN file.groups |->
            [name |-> file.groups[g].name,
             tasks |-> file.groups[g].tasks,
             dependencies |-> <<>>]]

\* PlanParser._parse_tasks: no Tasks section, no group
ParseTasks(file) ==
    IF ~file.has_tasks THEN <<>>
    ELSE [g \in DOMAIN file.groups |->
            [name |-> file.groups[g].name,
             tasks |-> file.groups[g].tasks,
             dependencies |-> <<>>]]

\* an execute() that goes on after the summary of a dry run
ParseIgnoresDryRun ==
    /\ pc = "parse"
    /\ IF ~plan_file.exists
       THEN /\ result' = "False"
            /\ pc' = "done"
            /\ UNCHANGED <<parsed, gstatus, tstatus, terror, run, group_result,
                           wtask, wstep, command_log>>
       ELSE /\ content' = plan_file.text
            /\ context_loading' = plan_file.context
            /\ task_groups' = ParseTasks(plan_file)
            /\ gstatus' = [g \in DOMAIN task_groups' |-> PENDING]
            /\ tstatus' = [g \in DOMAIN task_groups' |->
                             [t \in DOMAIN task_groups'[g].tasks |-> PENDING]]
            /\ terror' = [g \in DOMAIN task_groups' |->
                             [t \in DOMAIN task_groups'[g].tasks |-> "none"]]
            /\ run' = [g \in DOMAIN task_groups' |-> "idle"]
            /\ group_result' = [g \in DOMAIN task_groups' |-> "none"]
            /\ wtask' = [g \in DOMAIN task_groups' |-> 0]
            /\ wstep' = [g \in DOMAIN task_groups' |-> 0]
            /\ command_log' = [g \in DOMAIN task_groups' |-> <<>>]
            /\ result' = result
            /\ pc' = "update_in_progress"
    /\ UNCHANGED <<inputs, context_index, completed_groups, failed_groups,
                   iteration, batch, success, status_writes, commands_run,
                   left_out>>
    /\ UNCHANGED <<context_log, error_message, batches_run>>
    /\ UNCHANGED process

\* execute(), up to the dry-run return: PlanParser.parse raises when the file
\* does not exist; a dry run returns True after the summary
Parse ==
    /\ pc = "parse"
    /\ IF ~plan_file.exists
       THEN /\ result' = "False"
            /\ pc' = "done"
            /\ UNCHANGED <<parsed, gstatus, tstatus, terror, run, group_result,
                           wtask, wstep, command_log>>
       ELSE /\ content' = plan_file.text
            /\ context_loading' = plan_file.context
            /\ task_groups' = ParseTasks(plan_file)
            /\ gstatus' = [g \in DOMAIN task_groups' |-> PENDING]
            /\ tstatus' = [g \in DOMAIN task_groups' |->
                             [t \in DOMAIN task_groups'[g].tasks |-> PENDING]]
            /\ terror' = [g \in DOMAIN task_groups' |->
                             [t \in DOMAIN task_groups'[g].tasks |-> "none"]]
            /\ run' = [g \in DOMAIN task_groups' |-> "idle"]
            /\ group_result' = [g \in DOMAIN task_groups' |-> "none"]
            /\ wtask' = [g \in DOMAIN task_groups' |-> 0]
            /\ wstep' = [g \in DOMAIN task_groups' |-> 0]
            /\ command_log' = [g \in DOMAIN task_groups' |-> <<>>]
            /\ IF dry_run
               THEN result' = "True" /\ pc' = "done"
               ELSE result' = result /\ pc' = "update_in_progress"
    /\ UNCHANGED <<inputs, context_index, completed_groups, failed_groups,
                   iteration, batch, success, status_writes, commands_run,
                   left_out>>
    /\ UNCHANGED <<context_log, error_message, batches_run>>
    /\ UNCHANGED process

\* ---------------------------------------------------------- status writer
\* _update_plan_status(status): the text written is computed from the text
\* as parsed
UpdatePlanStatus(status) ==
    IF dry_run
    THEN UNCHANGED <<plan_file, status_writes>>
    ELSE /\ plan_file' = [plan_file EXCEPT !.text = RewriteStatus(content, status)]
         /\ status_writes' = Append(status_writes, status)

UpdateStatusInProgress ==
    /\ pc = "update_in_progress"
    /\ UpdatePlanStatus("IN_PROGRESS")
    /\ context_index' = 1
    /\ pc' = "context_loading"
    /\ UNCHANGED <<batch_size, dry_run, parsed, workers, iteration, batch,
                   success, result, commands_run, left_out>>
    /\ UNCHANGED <<context_log, command_log, error_message, batches_run>>
    /\ UNCHANGED process

\* -------------------------------------------------------- context loading
\* a context loader that gives up at the first command that fails
ContextCommandStopsOnFailure(outcome) ==
    /\ commands_run' = commands_run + 1
    /\ context_log' = Append(context_log,
                             [index |-> context_index, outcome |-> outcome])
    /\ context_index' = IF outcome = "ok" THEN context_index + 1
                        ELSE Len(context_loading) + 1

\* subprocess.run(cmd, timeout=30) in _execute_context_loading: a nonzero
\* status and an exception are printed and otherwise ignored
ContextCommandRuns(outcome) ==
    /\ commands_run' = commands_run + 1
    /\ context_log' = Append(context_log,
                             [index |-> context_index, outcome |-> outcome])
    /\ context_index' = context_index + 1

\* one pass of the loop of _execute_context_loading
ContextCommand ==
    /\ pc = "context_loading"
    /\ context_index <= Len(context_loading)
    /\ IF dry_run
       THEN /\ context_index' = context_index + 1
            /\ UNCHANGED <<commands_run, context_log>>
       ELSE \E outcome \in Outcomes : ContextCommandRuns(outcome)
    /\ UNCHANGED <<inputs, pc, parsed, workers, iteration, batch, success,
                   result, status_writes, left_out>>
    /\ UNCHANGED <<command_log, error_message, batches_run>>
    /\ UNCHANGED process

\* ---------------------------------------------------- dependency resolver
\* _build_dependencies: every group but the first depends on the name of
\* its predecessor
BuildDependenciesOf(groups) ==
    [i \in DOMAIN groups |->
        IF i > 1
        THEN [groups[i] EXCEPT !.dependencies = Append(@, groups[i - 1].name)]
        ELSE groups[i]]

\* a scheduler that does not wait for the context loader to finish
BuildDependenciesEarly ==
    /\ pc = "context_loading"
    /\ task_groups' = BuildDependenciesOf(task_groups)
    /\ iteration' = 0
    /\ pc' = "schedule"
    /\ UNCHANGED <<inputs, content, context_loading, context_index, workers,
                   batch, success, result, status_writes, commands_run,
                   left_out>>
    /\ UNCHANGED <<context_log, command_log, error_message, batches_run>>
    /\ UNCHANGED process

\* the call of _execute_task_groups after _execute_context_loading returned:
\* its first statement is _build_dependencies()
BuildDependencies ==
    /\ pc = "context_loading"
    /\ context_index > Len(context_loading)
    /\ task_groups' = BuildDependenciesOf(task_groups)
    /\ iteration' = 0
    /\ pc' = "schedule"
    /\ UNCHANGED <<inputs, content, context_loading, context_index, workers,
                   batch, success, result, status_writes, commands_run,
                   left_out>>
    /\ UNCHANGED <<context_log, command_log, error_message, batches_run>>
    /\ UNCHANGED process


\* --------------------------------------------------------------- scheduler
\* a readiness test that ignores the dependency list
IsReadyAlways(group, completed) == TRUE

\* TaskGroup.is_ready
is_ready(group, completed) ==
    \A d \in Range(group.dependencies) : d \in completed

\* a ready list that does not look at the status of a group
ReadyGroupsAnyStatus ==
    Filter([g \in Groups |-> g],
           {g \in Groups : is_ready(task_groups[g], completed_groups)})

\* the list comprehension of _execute_task_groups, in document order
ReadyGroups ==
    Filter([g \in Groups |-> g],
           {g \in Groups : gstatus[g] = PENDING
                           /\ is_ready(task_groups[g], completed_groups)})

\* a batch that is the whole ready list, whatever the batch size
SelectWholeReady(ready) == ready

\* ready_groups[:self.batch_size]
SelectBatch(ready) == PySlicePrefix(ready, batch_size)

\* an iteration budget of one iteration per group
MaxIterationsOnePerGroup == Len(task_groups)

\* an iteration budget of half an iteration per group
MaxIterationsHalved == Len(task_groups) \div 2

\* max_iterations = len(self.parser.task_groups) * 2
MaxIterations == Len(task_groups) * 2

\* an empty ready list that always leaves the loop by its break
NoReadyBreaks == "True"

\* the branch for an empty ready list: False after the error is logged; the
\* break leaves the loop for the return True that follows it
NoReadyResult ==
    IF Cardinality(completed_groups) < Len(task_groups) THEN "False"
    ELSE "True"

\* One pass of the while loop of _execute_task_groups up to the call that
\* runs the batch: the loop test, the iteration budget, the ready groups, the
\* batch.  The two errors the loop logs are kept in error_message.  A batch
\* of one is run by the scheduler itself; any other batch goes to a pool of
\* len(batch) workers, which ThreadPoolExecutor refuses to build for an empty
\* batch (ValueError, not caught anywhere in execute()).
ScheduleBatch ==
    /\ pc = "schedule"
    /\ LET ready == ReadyGroups
           chosen == SelectBatch(ready)
       IN  IF ~(Cardinality(completed_groups) < Len(task_groups))
           THEN /\ success' = "True"
                /\ pc' = "update_final"
                /\ UNCHANGED <<batch, run, left_out, error_message,
                               batches_run>>
           ELSE IF iteration >= MaxIterations
           THEN /\ error_message' = "max_iterations"
                /\ success' = "False"
                /\ pc' = "update_final"
                /\ UNCHANGED <<batch, run, left_out, batches_run>>
           ELSE IF ready = <<>>
           THEN /\ error_message' = IF NoReadyResult = "False"
                                    THEN "no_ready_groups" ELSE error_message
                /\ success' = NoReadyResult
                /\ pc' = "update_final"
                /\ UNCHANGED <<batch, run, left_out, batches_run>>
           ELSE /\ batch' = chosen
                /\ batches_run' = batches_run + 1
                /\ UNCHANGED error_message
                /\ left_out' = left_out \cup
                       {<<h, Range(chosen)>> : h \in Range(ready) \ Range(chosen)}
                /\ run' = [g \in Groups |->
                              IF g \in Range(chosen) THEN "queued" ELSE run[g]]
                /\ pc' = IF Len(chosen) = 1 THEN "sync"
                         ELSE IF Len(chosen) = 0 THEN "crashed"
                         ELSE "parallel"
                /\ UNCHANGED success
    /\ UNCHANGED <<inputs, parsed, context_index, gstatus, tstatus, terror,
                   completed_groups, failed_groups, iteration, group_result,
                   wtask, wstep, result, status_writes, commands_run>>
    /\ UNCHANGED <<context_log, command_log>>
    /\ UNCHANGED process

\* ------------------------------------------------------------ group runner
\* _execute_group(g) is entered: by the scheduler for a batch of one, by a
\* pool worker that takes the queued work item otherwise (a work item that
\* was not cancelled is still taken while the pool shuts down)
GroupStart(g) ==
    /\ pc \in {"sync", "parallel", "shutdown"}
    /\ run[g] = "queued"
    /\ run' = [run EXCEPT ![g] = "running"]
    /\ gstatus' = [gstatus EXCEPT ![g] = IN_PROGRESS]
    /\ wtask' = [wtask EXCEPT ![g] = 1]
    /\ wstep' = [wstep EXCEPT ![g] = 0]
    /\ UNCHANGED <<inputs, pc, parsed, context_index, tstatus, terror,
                   completed_groups, failed_groups, iteration, batch,
                   group_result, success, result, status_writes,
                   commands_run, left_out>>
    /\ UNCHANGED <<context_log, command_log, error_message, batches_run>>
    /\ UNCHANGED process

\* a task runner that does not mark the task in_progress on entry
TaskStartUnmarked(g) ==
    /\ run[g] = "running"
    /\ wtask[g] \in Tasks(g)
    /\ wstep[g] = 0
    /\ wstep' = [wstep EXCEPT ![g] = 1]
    /\ UNCHANGED <<inputs, pc, parsed, context_index, gstatus, tstatus, terror,
                   completed_groups, failed_groups, iteration, batch, run,
                   group_result, wtask, success, result, status_writes,
                   commands_run, left_out>>
    /\ UNCHANGED <<context_log, command_log, error_message, batches_run>>
    /\ UNCHANGED process

\* _execute_task is entered for the next task of the group
TaskStart(g) ==
    /\ run[g] = "running"
    /\ wtask[g] \in Tasks(g)
    /\ wstep[g] = 0
    /\ tstatus' = [tstatus EXCEPT ![g][wtask[g]] = IN_PROGRESS]
    /\ wstep' = [wstep EXCEPT ![g] = 1]
    /\ UNCHANGED <<inputs, pc, parsed, context_index, gstatus, terror,
                   completed_groups, failed_groups, iteration, batch, run,
                   group_result, wtask, success, result, status_writes,
                   commands_run, left_out>>
    /\ UNCHANGED <<context_log, command_log, error_message, batches_run>>
    /\ UNCHANGED process

\* Task.error after a failed command: the error stream, or the text of the
\* exception
ErrorOf(outcome) == IF outcome = "nonzero" THEN "stderr" ELSE "exception"

\* a group runner that marks the group failed and goes on with the next task
GroupFailsAndGoesOn(g, outcome) ==
    /\ terror' = [terror EXCEPT ![g][wtask[g]] = ErrorOf(outcome)]
    /\ gstatus' = [gstatus EXCEPT ![g] = FAILED]
    /\ failed_groups' = failed_groups \cup {task_groups[g].name}
    /\ wtask' = [wtask EXCEPT ![g] = @ + 1]
    /\ wstep' = [wstep EXCEPT ![g] = 0]
    /\ UNCHANGED <<tstatus, completed_groups, group_result, run>>

\* _execute_task returned False: _execute_group marks the group failed and
\* returns False
GroupFails(g, outcome) ==
    /\ terror' = [terror EXCEPT ![g][wtask[g]] = ErrorOf(outcome)]
    /\ gstatus' = [gstatus EXCEPT ![g] = FAILED]
    /\ failed_groups' = failed_groups \cup {task_groups[g].name}
    /\ group_result' = [group_result EXCEPT ![g] = "False"]
    /\ run' = [run EXCEPT ![g] = "returned"]
    /\ UNCHANGED <<tstatus, completed_groups, wtask, wstep>>

\* subprocess.run of a step (step > 0) or of the verify command (step = 0)
Logged(g, step, outcome) ==
    [command_log EXCEPT ![g] = Append(@, [task |-> wtask[g], step |-> step,
                                          outcome |-> outcome])]

\* one pass of the step loop of _execute_task
RunStep(g) ==
    /\ run[g] = "running"
    /\ wtask[g] \in Tasks(g)
    /\ wstep[g] \in DOMAIN task_groups[g].tasks[wtask[g]].steps
    /\ LET step == task_groups[g].tasks[wtask[g]].steps[wstep[g]]
       IN  IF dry_run \/ ~IsCommandStep(step)
           THEN /\ wstep' = [wstep EXCEPT ![g] = @ + 1]
                /\ UNCHANGED <<gstatus, tstatus, terror, completed_groups,
                               failed_groups, run, group_result, wtask,
                               commands_run, command_log>>
           ELSE /\ commands_run' = commands_run + 1
                /\ \E outcome \in Outcomes :
                      /\ command_log' = Logged(g, wstep[g], outcome)
                      /\ IF outcome = "ok"
                         THEN /\ wstep' = [wstep EXCEPT ![g] = @ + 1]
                              /\ UNCHANGED <<gstatus, tstatus, terror,
                                             completed_groups, failed_groups,
                                             run, group_result, wtask>>
                         ELSE GroupFails(g, outcome)
    /\ UNCHANGED <<inputs, pc, parsed, context_index, iteration, batch,
                   success, result, status_writes, left_out>>
    /\ UNCHANGED <<context_log, error_message, batches_run>>
    /\ UNCHANGED process

\* a group runner that goes to the next task without marking the task
\* completed
TaskCompletesUnmarked(g) ==
    /\ wtask' = [wtask EXCEPT ![g] = @ + 1]
    /\ wstep' = [wstep EXCEPT ![g] = 0]
    /\ UNCHANGED <<tstatus, gstatus, terror, completed_groups, failed_groups,
                   run, group_result>>

\* a task runner that leaves an error text on a task that succeeded
TaskCompletesWithError(g) ==
    /\ tstatus' = [tstatus EXCEPT ![g][wtask[g]] = COMPLETED]
    /\ terror' = [terror EXCEPT ![g][wtask[g]] = "stderr"]
    /\ wtask' = [wtask EXCEPT ![g] = @ + 1]
    /\ wstep' = [wstep EXCEPT ![g] = 0]
    /\ UNCHANGED <<gstatus, completed_groups, failed_groups, run,
                   group_result>>

\* _execute_task returned True: _execute_group marks the task completed and
\* goes to the next one
TaskCompletes(g) ==
    /\ tstatus' = [tstatus EXCEPT ![g][wtask[g]] = COMPLETED]
    /\ wtask' = [wtask EXCEPT ![g] = @ + 1]
    /\ wstep' = [wstep EXCEPT ![g] = 0]
    /\ UNCHANGED <<gstatus, terror, completed_groups, failed_groups, run,
                   group_result>>

\* a verification whose command never returns and has no timeout
RunVerifyHangs(g) ==
    /\ run[g] = "running"
    /\ wtask[g] \in Tasks(g)
    /\ wstep[g] = Len(task_groups[g].tasks[wtask[g]].steps) + 1
    /\ dry_run \/ task_groups[g].tasks[wtask[g]].verify = ""
    /\ TaskCompletes(g)
    /\ UNCHANGED <<commands_run, command_log>>
    /\ UNCHANGED <<inputs, pc, parsed, context_index, iteration, batch,
                   success, result, status_writes, left_out>>
    /\ UNCHANGED <<context_log, error_message, batches_run>>
    /\ UNCHANGED process

\* the verification of _execute_task, after the last step
RunVerify(g) ==
    /\ run[g] = "running"
    /\ wtask[g] \in Tasks(g)
    /\ wstep[g] = Len(task_groups[g].tasks[wtask[g]].steps) + 1
    /\ IF dry_run \/ task_groups[g].tasks[wtask[g]].verify = ""
       THEN /\ TaskCompletes(g)
            /\ UNCHANGED <<commands_run, command_log>>
       ELSE /\ commands_run' = commands_run + 1
            /\ \E outcome \in Outcomes :
                  /\ command_log' = Logged(g, 0, outcome)
                  /\ IF outcome = "ok" THEN TaskCompletes(g)
                     ELSE GroupFails(g, outcome)
    /\ UNCHANGED <<inputs, pc, parsed, context_index, iteration, batch,
                   success, result, status_writes, left_out>>
    /\ UNCHANGED <<context_log, error_message, batches_run>>
    /\ UNCHANGED process

\* the end of _execute_group after the last task
GroupFinish(g) ==
    /\ run[g] = "running"
    /\ wtask[g] = Len(task_groups[g].tasks) + 1
    /\ gstatus' = [gstatus EXCEPT ![g] = COMPLETED]
    /\ completed_groups' = completed_groups \cup {task_groups[g].name}
    /\ group_result' = [group_result EXCEPT ![g] = "True"]
    /\ run' = [run EXCEPT ![g] = "returned"]
    /\ UNCHANGED <<inputs, pc, parsed, context_index, tstatus, terror,
                   failed_groups, iteration, batch, wtask, wstep, success,
                   result, status_writes, commands_run, left_out>>
    /\ UNCHANGED <<context_log, command_log, error_message, batches_run>>
    /\ UNCHANGED process

\* ------------------------------------------------ the scheduler, continued
\* a scheduler that goes on to the next iteration whatever the group returned
SyncReturnIgnoresFailure ==
    /\ pc = "sync"
    /\ run[batch[1]] = "returned"
    /\ iteration' = iteration + 1
    /\ pc' = "schedule"
    /\ run' = [run EXCEPT ![batch[1]] = "idle"]
    /\ UNCHANGED <<inputs, parsed, context_index, gstatus, tstatus, terror,
                   completed_groups, failed_groups, batch, group_result,
                   wtask, wstep, success, result, status_writes, commands_run,
                   left_out>>
    /\ UNCHANGED <<context_log, command_log, error_message, batches_run>>
    /\ UNCHANGED process

\* _execute_group(batch[0]) returned to _execute_task_groups
SyncReturn ==
    /\ pc = "sync"
    /\ run[batch[1]] = "returned"
    /\ IF group_result[batch[1]] = "True"
       THEN /\ iteration' = iteration + 1
            /\ pc' = "schedule"
            /\ UNCHANGED success
       ELSE /\ success' = "False"
            /\ pc' = "update_final"
            /\ UNCHANGED iteration
    /\ run' = [run EXCEPT ![batch[1]] = "idle"]
    /\ UNCHANGED <<inputs, parsed, context_index, gstatus, tstatus, terror,
                   completed_groups, failed_groups, batch, group_result,
                   wtask, wstep, result, status_writes, commands_run,
                   left_out>>
    /\ UNCHANGED <<context_log, command_log, error_message, batches_run>>
    /\ UNCHANGED process

\* a cancellation that also stops the groups workers are running
AsCompletedInterrupts ==
    /\ pc = "parallel"
    /\ IF \A g \in Range(batch) : run[g] = "returned" /\ group_result[g] = "True"
       THEN /\ run' = [h \in Groups |->
                          IF h \in Range(batch) THEN "idle" ELSE run[h]]
            /\ iteration' = iteration + 1
            /\ pc' = "schedule"
       ELSE /\ \E g \in Range(batch) :
                  run[g] = "returned" /\ group_result[g] = "False"
            /\ run' = [h \in Groups |->
                          IF run[h] \in {"queued", "running"} THEN "cancelled"
                          ELSE run[h]]
            /\ pc' = "shutdown"
            /\ UNCHANGED iteration
    /\ UNCHANGED <<inputs, parsed, context_index, gstatus, tstatus, terror,
                   completed_groups, failed_groups, batch, group_result,
                   wtask, wstep, success, result, status_writes,
                   commands_run, left_out>>
    /\ UNCHANGED <<context_log, command_log, error_message, batches_run>>
    /\ UNCHANGED process

\* The as_completed loop of _execute_groups_parallel.  A future that returned
\* True is passed over; the scheduler acts when a future that returned False is
\* handed to it (every future is cancelled, which only stops one that no
\* worker has taken yet, and the loop is left), or when all futures returned
\* True (the pool is left and the batch has succeeded).
AsCompleted ==
    /\ pc = "parallel"
    /\ IF \A g \in Range(batch) : run[g] = "returned" /\ group_result[g] = "True"
       THEN /\ run' = [h \in Groups |->
                          IF h \in Range(batch) THEN "idle" ELSE run[h]]
            /\ iteration' = iteration + 1
            /\ pc' = "schedule"
       ELSE /\ \E g \in Range(batch) :
                  run[g] = "returned" /\ group_result[g] = "False"
            /\ run' = [h \in Groups |->
                          IF run[h] = "queued" THEN "cancelled" ELSE run[h]]
            /\ pc' = "shutdown"
            /\ UNCHANGED iteration
    /\ UNCHANGED <<inputs, parsed, context_index, gstatus, tstatus, terror,
                   completed_groups, failed_groups, batch, group_result,
                   wtask, wstep, success, result, status_writes,
                   commands_run, left_out>>
    /\ UNCHANGED <<context_log, command_log, error_message, batches_run>>
    /\ UNCHANGED process

\* a pool that is left without waiting for its workers (shutdown(wait=False))
PoolShutdownNoWait ==
    /\ pc = "shutdown"
    /\ success' = "False"
    /\ pc' = "update_final"
    /\ UNCHANGED <<inputs, parsed, context_index, workers, iteration, batch,
                   result, status_writes, commands_run, left_out>>
    /\ UNCHANGED <<context_log, command_log, error_message, batches_run>>
    /\ UNCHANGED process

\* the end of the with block after a False result: shutdown(wait=True) joins
\* the workers, so the return waits for every group that is still running
\* and for every work item that was not cancelled
PoolShutdown ==
    /\ pc = "shutdown"
    /\ \A h \in Range(batch) : run[h] \notin {"queued", "running"}
    /\ success' = "False"
    /\ pc' = "update_final"
    /\ UNCHANGED <<inputs, parsed, context_index, workers, iteration, batch,
                   result, status_writes, commands_run, left_out>>
    /\ UNCHANGED <<context_log, command_log, error_message, batches_run>>
    /\ UNCHANGED process

\* an end of execute() that writes the final status only after a success
FinishWritesOnlySuccess ==
    /\ pc = "update_final"
    /\ IF success = "True" THEN UpdatePlanStatus("COMPLETED")
       ELSE UNCHANGED <<plan_file, status_writes>>
    /\ result' = success
    /\ pc' = "done"
    /\ UNCHANGED <<batch_size, dry_run, parsed, context_index, workers,
                   iteration, batch, success, commands_run, left_out>>
    /\ UNCHANGED <<context_log, command_log, error_message, batches_run>>
    /\ UNCHANGED process

\* the end of execute(): the final status is written, the result returned
Finish ==
    /\ pc = "update_final"
    /\ UpdatePlanStatus(IF success = "True" THEN "COMPLETED" ELSE "FAILED")
    /\ result' = success
    /\ pc' = "done"
    /\ UNCHANGED <<batch_size, dry_run, parsed, context_index, workers,
                   iteration, batch, success, commands_run, left_out>>
    /\ UNCHANGED <<context_log, command_log, error_message, batches_run>>
    /\ UNCHANGED process

Next ==
    \/ Parse
    \/ UpdateStatusInProgress
    \/ ContextCommand
    \/ BuildDependencies
    \/ ScheduleBatch
    \/ \E g \in Groups : GroupStart(g)
    \/ \E g \in Groups : TaskStart(g)
    \/ \E g \in Groups : RunStep(g)
    \/ \E g \in Groups : RunVerify(g)
    \/ \E g \in Groups : GroupFinish(g)
    \/ SyncReturn
    \/ AsCompleted
    \/ PoolShutdown
    \/ Finish

Spec == Init /\ [][Next]_vars

\* ------------------------------------------------- the run, with progress
\* Every thread that can take a step takes one in the end: the scheduler
\* thread and the pool workers are scheduled by the operating system, and
\* subprocess.run is called with a timeout (30 s for context loading, 60 s
\* for steps and verify commands), so every command returns or raises.
SpecLive == Init /\ [][Next]_vars /\ WF_vars(Next)

\* ------------------------------------- the run, with workers that raise
\* _execute_group(g) raises in a pool worker.  The statements of
\* _execute_group and _execute_task outside the try blocks that can raise are
\* the calls of _log, which prints the group or task name: on entry (the group
\* is still pending), between the steps of a task, and after the group was
\* marked completed and its name added to completed_groups.
WorkerRaises(g) ==
    /\ pc \in {"parallel", "shutdown"}
    /\ run[g] \in {"queued", "running"}
    /\ run' = [run EXCEPT ![g] = "raised"]
    /\ IF run[g] = "running" /\ wtask[g] = Len(task_groups[g].tasks) + 1
       THEN /\ gstatus' = [gstatus EXCEPT ![g] = COMPLETED]
            /\ completed_groups' = completed_groups \cup {task_groups[g].name}
       ELSE UNCHANGED <<gstatus, completed_groups>>
    /\ UNCHANGED <<inputs, pc, parsed, context_index, tstatus, terror,
                   failed_groups, iteration, batch, group_result, wtask, wstep,
                   success, result, status_writes, commands_run, left_out>>
    /\ UNCHANGED <<context_log, command_log, error_message, batches_run>>
    /\ UNCHANGED process

\* the except branch of the as_completed loop: future.result() raises what
\* the worker raised; the group is marked failed and False is returned,
\* without cancelling anything
AsCompletedException ==
    /\ pc = "parallel"
    /\ \E g \in Range(batch) :
          /\ run[g] = "raised"
          /\ gstatus' = [gstatus EXCEPT ![g] = FAILED]
          /\ failed_groups' = failed_groups \cup {task_groups[g].name}
    /\ pc' = "shutdown"
    /\ UNCHANGED <<inputs, parsed, context_index, tstatus, terror,
                   completed_groups, iteration, batch, run, group_result,
                   wtask, wstep, success, result, status_writes,
                   commands_run, left_out>>
    /\ UNCHANGED <<context_log, command_log, error_message, batches_run>>
    /\ UNCHANGED process

NextRaise ==
    \/ Next
    \/ \E g \in Groups : WorkerRaises(g)
    \/ AsCompletedException

SpecRaise == Init /\ [][NextRaise]_vars

\* ------------------------------------------- the task runner on its own
MaxSteps == 3

\* the state PlanExecutor.__init__ and PlanParser.__init__ leave behind,
\* whatever the inputs
ConstructedFields ==
    /\ content = <<>>
    /\ context_loading = <<>>
    /\ context_index = 0
    /\ task_groups = <<>>
    /\ gstatus = <<>>
    /\ tstatus = <<>>
    /\ terror = <<>>
    /\ completed_groups = {}
    /\ failed_groups = {}
    /\ iteration = 0
    /\ batch = <<>>
    /\ run = <<>>
    /\ group_result = <<>>
    /\ wtask = <<>>
    /\ wstep = <<>>
    /\ success = "none"
    /\ result = "none"
    /\ status_writes = <<>>
    /\ commands_run = 0
    /\ left_out = {}
    /\ context_log = <<>>
    /\ command_log = <<>>
    /\ error_message = "none"
    /\ batches_run = 0
    /\ exit_status = -1

Constructed == pc = "parse" /\ ConstructedFields

\* a task with any list of at most MaxSteps steps, with or without a verify
\* command
TaskInputs == [steps : SeqsUpTo(StepTexts, MaxSteps), verify : {"", "python"}]

\* plan files whose Tasks section holds the implicit group alone, with tasks
\* of one shape
TaskPlanFiles ==
    { [exists |-> TRUE, text |-> PlainText, has_tasks |-> TRUE,
       context |-> <<>>,
       groups |-> <<[name |-> "General", tasks |-> [t \in 1..n |-> shape]]>>] :
        shape \in TaskInputs, n \in 1..MaxTasks }

\* runs of a one-group plan, not dry, with a batch size of at least one
InitTask ==
    /\ args = [plan |-> TRUE, list |-> FALSE]
    /\ plan_file \in TaskPlanFiles
    /\ batch_size \in BatchSizes \ {0}
    /\ dry_run = FALSE
    /\ Constructed

\* the steps of execute() a one-group plan without context commands can take
NextTask ==
    \/ Parse
    \/ UpdateStatusInProgress
    \/ BuildDependencies
    \/ ScheduleBatch
    \/ \E g \in Groups : GroupStart(g)
    \/ \E g \in Groups : TaskStart(g)
    \/ \E g \in Groups : RunStep(g)
    \/ \E g \in Groups : RunVerify(g)
    \/ \E g \in Groups : GroupFinish(g)
    \/ SyncReturn
    \/ Finish

SpecTask == InitTask /\ [][NextTask]_vars

\* ----------------------------------------- the status writer on its own
MaxTextLen == 3
MaxWrites == 2

\* the texts of at most MaxTextLen tokens
Texts == SeqsUpTo(Tokens, MaxTextLen)

\* the statuses execute() passes to _update_plan_status
WrittenStatuses == {"IN_PROGRESS", "COMPLETED", "FAILED"}

\* a plan file with any text, read by an executor that is not dry
InitText ==
    /\ args = [plan |-> TRUE, list |-> FALSE]
    /\ plan_file \in { [exists |-> TRUE, text |-> t, has_tasks |-> FALSE,
                         context |-> <<>>, groups |-> <<>>] : t \in Texts }
    /\ batch_size = 1
    /\ dry_run = FALSE
    /\ Constructed

\* PlanParser.parse of an executor built on the file as it stands: the text
\* is read into parser.content
ParseText ==
    /\ pc = "parse"
    /\ Len(status_writes) < MaxWrites
    /\ content' = plan_file.text
    /\ pc' = "write"
    /\ UNCHANGED <<inputs, context_loading, task_groups, context_index,
                   workers, iteration, batch, success, result, status_writes,
                   commands_run, left_out, context_log, command_log,
                   error_message, batches_run>>
    /\ UNCHANGED process

\* _update_plan_status(status) of that executor
WriteStatus(status) ==
    /\ pc = "write"
    /\ UpdatePlanStatus(status)
    /\ pc' = "parse"
    /\ UNCHANGED <<batch_size, dry_run, parsed, context_index, workers,
                   iteration, batch, success, result, commands_run, left_out,
                   context_log, command_log, error_message, batches_run>>
    /\ UNCHANGED process

NextText ==
    \/ ParseText
    \/ \E status \in WrittenStatuses : WriteStatus(status)

SpecText == InitText /\ [][NextText]_vars

\* ------------------------------------------------------ the command line
\* the command lines main() accepts: with or without --plan and --list
ArgLines == [plan : BOOLEAN, list : BOOLEAN]

\* the process has started; the plan file, batch size and dry-run flag
\* matter when --plan is given without --list, and the plan has one group at
\* most
InitMain ==
    /\ args \in ArgLines
    /\ plan_file \in PlanFiles
    /\ Len(plan_file.groups) <= 1
    /\ batch_size \in BatchSizes
    /\ dry_run \in BOOLEAN
    /\ (args.list \/ ~args.plan) =>
          /\ ~plan_file.exists
          /\ batch_size = 1
          /\ ~dry_run
    /\ pc = "main"
    /\ ConstructedFields

\* main() up to the call of execute(): --list prints the plans and returns;
\* without --plan, parser.error() prints the usage and exits with status 2
MainArgs ==
    /\ pc = "main"
    /\ IF args.list THEN pc' = "exited" /\ exit_status' = 0
       ELSE IF ~args.plan THEN pc' = "exited" /\ exit_status' = 2
       ELSE pc' = "parse" /\ UNCHANGED exit_status
    /\ UNCHANGED <<inputs, parsed, context_index, workers, iteration, batch,
                   success, result, status_writes, commands_run, left_out,
                   context_log, command_log, error_message, batches_run, args>>

\* sys.exit(0 if success else 1)
Exit ==
    /\ pc = "done"
    /\ exit_status' = IF result = "True" THEN 0 ELSE 1
    /\ pc' = "exited"
    /\ UNCHANGED <<inputs, parsed, context_index, workers, iteration, batch,
                   success, result, status_writes, commands_run, left_out,
                   context_log, command_log, error_message, batches_run, args>>

\* the ValueError of an empty pool reaches the top of the interpreter, which
\* prints the traceback and exits with status 1
UncaughtExit ==
    /\ pc = "crashed"
    /\ exit_status' = 1
    /\ pc' = "exited"
    /\ UNCHANGED <<inputs, parsed, context_index, workers, iteration, batch,
                   success, result, status_writes, commands_run, left_out,
                   context_log, command_log, error_message, batches_run, args>>

NextMain ==
    \/ MainArgs
    \/ Parse
    \/ UpdateStatusInProgress
    \/ ContextCommand
    \/ BuildDependencies
    \/ ScheduleBatch
    \/ \E g \in Groups : GroupStart(g)
    \/ \E g \in Groups : TaskStart(g)
    \/ \E g \in Groups : RunStep(g)
    \/ \E g \in Groups : RunVerify(g)
    \/ \E g \in Groups : GroupFinish(g)
    \/ SyncReturn
    \/ Finish
    \/ Exit
    \/ UncaughtExit

SpecMain == InitMain /\ [][NextMain]_vars

\* ------------------------------------------------- the parser of the tasks
\* The text after the line "## Tasks" is a sequence of lines.  A line is a
\* sub-heading ("## name", or "##" and a tab before the name), a task heading
\* ("### Task num: name"), one of the labels **Context:**, **Steps:** and
\* **Verify:** (with its command), a numbered checklist line, or any other
\* line (blank, a rule, prose).
MaxLines == 4

SubLine(sep, name) == [kind |-> "sub", sep |-> sep, name |-> name]

TaskLine(num, name) == [kind |-> "task", num |-> num, name |-> name]

StepLine(text) == [kind |-> "step", text |-> text]

VerifyLine(cmd) == [kind |-> "verify", cmd |-> cmd]

ContextLine == [kind |-> "context"]

StepsLine == [kind |-> "steps"]

OtherLine == [kind |-> "other"]

\* the lines the plans are made of
LineInputs ==
    { SubLine("space", "Core"), SubLine("tab", "Core"), TaskLine(1, "a"),
      TaskLine(2, "b"), StepsLine, StepLine("python"), VerifyLine("python"),
      OtherLine }

\* re.search(r'\n## ', tasks_content): the first line but the first one that
\* starts with "## " ends the text that is parsed (0: there is none)
NextSection(lines) ==
    LET found == {j \in DOMAIN lines :
                     j > 1 /\ lines[j].kind = "sub" /\ lines[j].sep = "space"}
    IN  IF found = {} THEN 0 ELSE CHOOSE j \in found : \A h \in found : j <= h

\* tasks_content[:next_section.start()].split('\n')
TrimTasks(lines) ==
    IF NextSection(lines) = 0 THEN lines
    ELSE SubSeq(lines, 1, NextSection(lines) - 1)

\* the loop under **Steps:**: it collects checklist lines and stops at a
\* **Verify:** line or at the end of the text, at nothing else
RECURSIVE ScanSteps(_, _, _)
ScanSteps(lines, i, steps) ==
    IF i > Len(lines) \/ lines[i].kind = "verify"
    THEN [i |-> i, steps |-> steps]
    ELSE ScanSteps(lines, i + 1,
                   IF lines[i].kind = "step" THEN Append(steps, lines[i].text)
                   ELSE steps)

\* the loop over the lines that follow a task heading; i is the line it has
\* come to when it is left
RECURSIVE ScanTask(_, _, _, _)
ScanTask(lines, i, steps, verify) ==
    IF i > Len(lines) THEN [i |-> i, steps |-> steps, verify |-> verify]
    ELSE IF lines[i].kind = "steps"
    THEN LET r == ScanSteps(lines, i + 1, steps)
         IN  ScanTask(lines, r.i, r.steps, verify)
    ELSE IF lines[i].kind = "verify"
    THEN [i |-> i, steps |-> steps,
          verify |-> IF lines[i].cmd # "" THEN lines[i].cmd ELSE verify]
    ELSE IF lines[i].kind \in {"task", "sub"}
    THEN [i |-> i, steps |-> steps, verify |-> verify]
    ELSE ScanTask(lines, i + 1, steps, verify)

\* current_group.add_task(task): the current group is the last one created
AddTask(groups, task) ==
    [groups EXCEPT ![Len(groups)].tasks = Append(@, task)]

\* The while loop of _parse_tasks from line i on.  After a task the loop goes
\* on with the line after the one the scan of the task was left at.  The
\* field line of a task is the line of its heading (history).
RECURSIVE ParseLoop(_, _, _)
ParseLoop(lines, i, groups) ==
    IF i > Len(lines) THEN groups
    ELSE LET line == lines[i]
             opened == IF line.kind = "sub" /\ line.name # "Tasks"
                       THEN Append(groups, [name |-> line.name, tasks |-> <<>>,
                                            dependencies |-> <<>>])
                       ELSE groups
         IN  IF line.kind = "task"
             THEN LET r == ScanTask(lines, i + 1, <<>>, "")
                      task == [id |-> line.num, name |-> line.name,
                               steps |-> r.steps, verify |-> r.verify,
                               line |-> i]
                  IN  ParseLoop(lines, r.i + 1, AddTask(opened, task))
             ELSE ParseLoop(lines, i + 1, opened)

\* _parse_tasks on a text with a Tasks section: the implicit group is created
\* first
ParseTasksLines(lines) ==
    ParseLoop(TrimTasks(lines), 1,
              <<[name |-> "General", tasks |-> <<>>, dependencies |-> <<>>]>>)

\* the section add_task_group writes for one task: the tasks of a group are
\* numbered from 1
RenderTask(i, task) ==
    <<TaskLine(i, task.name), OtherLine, ContextLine, OtherLine, StepsLine>>
        \o [k \in DOMAIN task.steps |-> StepLine(task.steps[k])]
        \o <<OtherLine, VerifyLine(task.verify), OtherLine, OtherLine, OtherLine>>

RECURSIVE RenderTasks(_, _)
RenderTasks(tasks, i) ==
    IF i > Len(tasks) THEN <<>>
    ELSE RenderTask(i, tasks[i]) \o RenderTasks(tasks, i + 1)

\* the section add_task_group writes for one group; the line break it starts
\* with ends the line before it
RenderGroup(group) ==
    <<SubLine("space", group.name), OtherLine>> \o RenderTasks(group.tasks, 1)

\* the text under "## Tasks" that holds the section of every group, in the
\* order of the groups; two sections are separated by the empty line the
\* later one starts with
RECURSIVE RenderGroups(_)
RenderGroups(groups) ==
    IF groups = <<>> THEN <<>>
    ELSE IF Len(groups) = 1 THEN RenderGroup(groups[1])
    ELSE RenderGroup(groups[1]) \o <<OtherLine>> \o RenderGroups(Tail(groups))

\* a plan file whose Tasks section holds any text of at most MaxLines lines
InitParse ==
    /\ args = [plan |-> TRUE, list |-> FALSE]
    /\ plan_file \in { [exists |-> TRUE, text |-> PlainText, has_tasks |-> TRUE,
                         context |-> <<>>, groups |-> <<>>, lines |-> ls] :
                          ls \in SeqsUpTo(LineInputs, MaxLines) }
    /\ batch_size = 1
    /\ dry_run = FALSE
    /\ Constructed

\* PlanParser._parse_tasks
ParsePlanLines ==
    /\ pc = "parse"
    /\ task_groups' = ParseTasksLines(plan_file.lines)
    /\ pc' = "parsed"
    /\ UNCHANGED <<inputs, content, context_loading, context_index, workers,
                   iteration, batch, success, result, status_writes,
                   commands_run, left_out, context_log, command_log,
                   error_message, batches_run, process>>

\* the groups and tasks of the model are written back as the Tasks section
RenderPlan ==
    /\ pc = "parsed"
    /\ plan_file' = [plan_file EXCEPT !.lines = RenderGroups(task_groups)]
    /\ pc' = "rendered"
    /\ UNCHANGED <<batch_size, dry_run, parsed, context_index, workers,
                   iteration, batch, success, result, status_writes,
                   commands_run, left_out, context_log, command_log,
                   error_message, batches_run, process>>

NextParse ==
    \/ ParsePlanLines
    \/ RenderPlan

SpecParse == InitParse /\ [][NextParse]_vars


\* ================================================================== claims
DependenciesOf(g) == Range(task_groups[g].dependencies)

InProgressGroups == {g \in Groups : gstatus[g] = IN_PROGRESS}

Terminal(status) == status \in {COMPLETED, FAILED}

SomeTaskFailed == \E g \in Groups : \E t \in Tasks(g) : terror[g][t] # "none"

\* C1: a batch is made only of pending groups whose dependency names are all
\* in the completed set at the moment of the selection, and a group leaves
\* status pending only as a member of the current batch, with every name of
\* its dependency list in the completed set.
C1_StartsOnlyWhenReady ==
    [][ /\ (pc = "schedule" /\ batch' # batch) =>
              \A g \in Range(batch') :
                  /\ gstatus[g] = PENDING
                  /\ DependenciesOf(g) \subseteq completed_groups
        /\ \A g \in Groups :
              (gstatus[g] = PENDING /\ gstatus'[g] # PENDING) =>
                  /\ g \in Range(batch)
                  /\ DependenciesOf(g) \subseteq completed_groups ]_vars

\* a group with a dependency is running
C1_Witness ==
    \E g \in Groups : DependenciesOf(g) # {} /\ gstatus[g] = IN_PROGRESS


\* the dependency names group c needs, directly or through the groups that
\* carry those names
RECURSIVE NeededNames(_)
NeededNames(names) ==
    LET more == names \cup UNION {DependenciesOf(h) :
                                    h \in {h \in Groups : task_groups[h].name \in names}}
    IN  IF more = names THEN names ELSE NeededNames(more)

\* group c, later in the document than b, depends on b directly or transitively
DependsOn(c, b) ==
    /\ b < c
    /\ task_groups[b].name \in NeededNames(DependenciesOf(c))

\* C2: when a group B has failed, every group that depends on B, directly
\* or transitively, is still pending, and a run that has ended with a failed
\* group has result failure.
C2_DependentsOfFailedStayPending ==
    /\ \A b \in Groups : \A c \in Groups :
          (gstatus[b] = FAILED /\ DependsOn(c, b)) => gstatus[c] = PENDING
    /\ (pc = "done" /\ \E b \in Groups : gstatus[b] = FAILED) => result = "False"

C4_LaterTasksStayPending ==
    \A g \in Groups : \A i \in Tasks(g) :
        terror[g][i] # "none" =>
            /\ gstatus[g] = FAILED
            /\ \A j \in Tasks(g) :
                  /\ j > i => (tstatus[g][j] = PENDING /\ terror[g][j] = "none")
                  /\ j < i => terror[g][j] = "none"
                  /\ tstatus[g][j] # SKIPPED

\* the first of two tasks has failed, the run has ended
C4_Witness ==
    /\ pc = "done"
    /\ \E g \in Groups :
          /\ Len(task_groups[g].tasks) = 2
          /\ terror[g][1] # "none"
          /\ tstatus[g][2] = PENDING
          /\ gstatus[g] = FAILED

\* C5: in every group a task has left pending only if the task before it is
\* completed, and at most one task of the group is in_progress.
C5_TasksOneAtATime ==
    \A g \in Groups :
        /\ \A i \in Tasks(g) :
              (i > 1 /\ tstatus[g][i] # PENDING) => tstatus[g][i - 1] = COMPLETED
        /\ Cardinality({i \in Tasks(g) : tstatus[g][i] = IN_PROGRESS}) <= 1

\* the second task of a group of a concurrent batch is running
C5_Witness ==
    /\ pc = "parallel"
    /\ \E g \in Range(batch) :
          /\ Len(task_groups[g].tasks) = 2
          /\ tstatus[g][1] = COMPLETED
          /\ tstatus[g][2] = IN_PROGRESS

\* the groups that are pending and ready, as a set
ReadySet ==
    {g \in Groups : gstatus[g] = PENDING
                    /\ DependenciesOf(g) \subseteq completed_groups}

\* C6: with a batch size b >= 1 at most b groups are in_progress; a batch is
\* the first b ready groups in document order (all of them when there are
\* fewer); a ready group that a batch left out has left pending only if a
\* group of that batch is completed.
C6_BatchBound ==
    /\ [](batch_size >= 1 => Cardinality(InProgressGroups) <= batch_size)
    /\ [](\A p \in left_out :
            gstatus[p[1]] # PENDING => \E g \in p[2] : gstatus[g] = COMPLETED)
    /\ [][(batch_size >= 1 /\ pc = "schedule" /\ batch' # batch) =>
            /\ Range(batch') \subseteq ReadySet
            /\ Len(batch') = Min(batch_size, Cardinality(ReadySet))
            /\ \A i \in DOMAIN batch' : \A j \in DOMAIN batch' :
                  i < j => batch'[i] < batch'[j]
            /\ \A g \in Range(batch') : \A h \in ReadySet \ Range(batch') :
                  g < h ]_vars

\* a group that a batch of two left out is running
C6_Witness ==
    \E p \in left_out :
        /\ batch_size = 2
        /\ Cardinality(p[2]) = 2
        /\ gstatus[p[1]] = IN_PROGRESS


\* the text carries the status marker followed by the given status word
TextHasStatus(text, status) ==
    \E i \in DOMAIN text :
        /\ text[i] = "M"
        /\ SkipSpace(text, i + 1) <= Len(text)
        /\ text[SkipSpace(text, i + 1)] = status

Last(s) == s[Len(s)]

\* execute() has returned from a non-dry run whose plan parsed
ReturnedFromRun == pc = "done" /\ plan_file.exists /\ ~dry_run

\* C7: when execute returns from a non-dry run whose plan parsed, the plan
\* file carries status COMPLETED exactly when the result is success and
\* status FAILED exactly when the result is failure, and a run in which a
\* command of a task failed has result failure.
C7_PersistedStatusMatchesResult ==
    ReturnedFromRun =>
        /\ TextHasStatus(plan_file.text, "COMPLETED") <=> (result = "True")
        /\ TextHasStatus(plan_file.text, "FAILED") <=> (result = "False")
        /\ SomeTaskFailed => result = "False"

\* the run of a plan that parsed has ended: execute() returned or raised
RunEnded == pc \in {"done", "crashed"} /\ plan_file.exists /\ ~dry_run

\* C8: the status writes of a non-dry run are IN_PROGRESS followed by exactly
\* one of COMPLETED and FAILED; a command is run only between the two writes.
C8_StatusWriteSequence ==
    /\ [](RunEnded =>
            status_writes \in {<<"IN_PROGRESS", "COMPLETED">>,
                               <<"IN_PROGRESS", "FAILED">>})
    /\ [][commands_run' # commands_run =>
            status_writes = <<"IN_PROGRESS">> /\ status_writes' = status_writes]_vars

\* a fatal condition has ended the run: the plan file is missing, a command
\* of a task failed, or the scheduler gave up (no ready group, iteration
\* budget)
FatalEnd ==
    /\ pc = "done"
    /\ \/ ~plan_file.exists
       \/ SomeTaskFailed
       \/ success = "False"

\* C9 as stated: every fatal condition ends the run with a final FAILED
\* status write and a failure result.
C9_FatalWritesFailed ==
    FatalEnd =>
        /\ result = "False"
        /\ status_writes # <<>>
        /\ Last(status_writes) = "FAILED"

\* C9 amended: every fatal condition ends the run with a failure result; the
\* last status write is FAILED when the plan file could be read, and nothing
\* is written when the plan file is missing.
C9_FatalWritesFailedIfParsed ==
    FatalEnd =>
        /\ result = "False"
        /\ plan_file.exists =>
              (status_writes # <<>> /\ Last(status_writes) = "FAILED")
        /\ ~plan_file.exists => status_writes = <<>>

\* a run has ended on a failed task command, with FAILED written last
C9_Witness ==
    /\ FatalEnd
    /\ SomeTaskFailed
    /\ status_writes = <<"IN_PROGRESS", "FAILED">>

\* no group has been executed
NoGroupExecuted == \A g \in Groups : gstatus[g] = PENDING

\* C10 as stated: a plan with no Tasks section, or whose file does not
\* exist, ends in failure with no command and no group executed.
C10_NoTasksRejected ==
    (pc = "done" /\ (~plan_file.exists \/ ~plan_file.has_tasks)) =>
        /\ result = "False"
        /\ commands_run = 0
        /\ NoGroupExecuted

\* C10 amended: a plan whose file does not exist is rejected (failure, no
\* command, no group, no status write); a plan with no Tasks section parses to
\* zero groups and is not rejected: no group is executed, a non-dry run
\* executes every context-loading command and the result is success.
C10_MissingFileRejected ==
    pc = "done" =>
        /\ ~plan_file.exists =>
              /\ result = "False"
              /\ commands_run = 0
              /\ task_groups = <<>>
              /\ status_writes = <<>>
        /\ (plan_file.exists /\ ~plan_file.has_tasks) =>
              /\ result = "True"
              /\ task_groups = <<>>
              /\ commands_run = IF dry_run THEN 0 ELSE Len(plan_file.context)

\* a non-dry run of a plan with no Tasks section has ended after running a
\* context-loading command
C10_Witness ==
    /\ pc = "done"
    /\ plan_file.exists
    /\ ~plan_file.has_tasks
    /\ ~dry_run
    /\ commands_run > 0
    /\ result = "True"

\* C11 as stated: when a step or verify command of a task has failed
\* (nonzero status, or an exception such as the timeout), the task's status
\* is failed, the group's status is failed, and the run ends in failure.
C11_FailedCommandFailsTask ==
    \A g \in Groups : \A t \in Tasks(g) :
        terror[g][t] # "none" =>
            /\ tstatus[g][t] = FAILED
            /\ gstatus[g] = FAILED
            /\ pc = "done" => result = "False"

\* the command prefixes of the specification
HasCommandPrefix(step) == step \in {"$", "git", "npm", "python"}

\* the commands run for task t of group g, in the order they were run
TaskLog(g, t) ==
    LET ofTask(e) == e.task = t
    IN  SelectSeq(command_log[g], ofTask)

\* every executable step of the task was run with success, and so was the
\* verify command unless it is empty
AllCommandsSucceeded(g, t) ==
    LET task == task_groups[g].tasks[t]
        log == TaskLog(g, t)
    IN  /\ \A i \in DOMAIN task.steps :
              HasCommandPrefix(task.steps[i]) =>
                  \E k \in DOMAIN log : log[k].step = i /\ log[k].outcome = "ok"
        /\ \/ task.verify = ""
           \/ \E k \in DOMAIN log : log[k].step = 0 /\ log[k].outcome = "ok"

\* C12: the commands of a task are its executable steps in list order, then
\* the verify command, which is run only when it is non-empty and every
\* executable step succeeded; a failed command is the last one of the task
\* and sets the task's error; a step without a command prefix is never run;
\* and once the run has ended, a task that was started is completed exactly
\* when all its executable steps and its verify command (if any) succeeded.
C12_TaskRunsStepsThenVerify ==
    \A g \in Groups : \A t \in Tasks(g) :
        LET task == task_groups[g].tasks[t]
            log == TaskLog(g, t)
        IN  /\ \A i, j \in DOMAIN log :
                  i < j => /\ log[i].step # 0
                           /\ log[j].step = 0 \/ log[i].step < log[j].step
                           /\ log[i].outcome = "ok"
            /\ \A k \in DOMAIN log :
                  /\ log[k].step # 0 =>
                        /\ log[k].step \in DOMAIN task.steps
                        /\ HasCommandPrefix(task.steps[log[k].step])
                  /\ log[k].step = 0 => task.verify # ""
                  /\ \A i \in DOMAIN task.steps :
                        (HasCommandPrefix(task.steps[i])
                         /\ (log[k].step = 0 \/ i < log[k].step)) =>
                            \E h \in 1..(k - 1) :
                                log[h].step = i /\ log[h].outcome = "ok"
            /\ terror[g][t] # "none" <=>
                  (log # <<>> /\ log[Len(log)].outcome # "ok")
            /\ tstatus[g][t] = COMPLETED => AllCommandsSucceeded(g, t)
            /\ (pc = "done" /\ tstatus[g][t] # PENDING) =>
                  (tstatus[g][t] = COMPLETED <=> AllCommandsSucceeded(g, t))

\* a run has ended in which a task with a step that is no command ran two
\* commands, the second of which failed, so that its verify command was
\* never run
C12_Witness ==
    /\ pc = "done"
    /\ \E g \in Groups : \E t \in Tasks(g) :
          LET task == task_groups[g].tasks[t]
              log == TaskLog(g, t)
          IN  /\ \E i \in DOMAIN task.steps : ~HasCommandPrefix(task.steps[i])
              /\ task.verify # ""
              /\ Len(log) = 2
              /\ log[1].outcome = "ok"
              /\ log[2].outcome = "nonzero"
              /\ log[2].step # 0
              /\ terror[g][t] = "stderr"
              /\ tstatus[g][t] # COMPLETED

\* a run of a plan file that exists, not dry
ParsedRun == plan_file.exists /\ ~dry_run

\* the context loader has returned
ContextLoadingOver ==
    ParsedRun /\ pc \notin {"parse", "update_in_progress", "context_loading"}

SomeContextCommandFailed ==
    \E i \in DOMAIN context_log : context_log[i].outcome # "ok"

\* C13: whatever the context-loading commands return, each of them is
\* attempted, running one changes nothing but the position of the loader
\* (and the histories of the commands run), the first group is executed, and
\* the result and the final status are decided by the groups alone: success
\* and COMPLETED exactly when no task command failed and the scheduler logged
\* no error, as when every context-loading command succeeds.
C13_ContextOutcomeIgnored ==
    /\ [](ContextLoadingOver =>
             {context_log[i].index : i \in DOMAIN context_log}
                 = DOMAIN context_loading)
    /\ []((ParsedRun /\ pc = "done") =>
             /\ task_groups # <<>> => gstatus[1] # PENDING
             /\ result = "True" <=> (~SomeTaskFailed /\ error_message = "none")
             /\ Last(status_writes) =
                    IF ~SomeTaskFailed /\ error_message = "none"
                    THEN "COMPLETED" ELSE "FAILED")
    /\ [][context_log' # context_log =>
             /\ pc' = pc
             /\ context_index' = context_index + 1
             /\ UNCHANGED <<inputs, parsed, workers, iteration, batch, success,
                            result, status_writes, left_out, command_log,
                            error_message, batches_run>>]_vars

\* a run has ended in success after one context-loading command returned a
\* nonzero status and another raised an exception
C13_Witness ==
    /\ ParsedRun
    /\ pc = "done"
    /\ Len(context_log) = 2
    /\ context_log[1].outcome = "nonzero"
    /\ context_log[2].outcome = "raised"
    /\ \E g \in Groups : gstatus[g] = COMPLETED
    /\ result = "True"
    /\ Last(status_writes) = "COMPLETED"

SomeGroupStarted == \E g \in Groups : gstatus[g] # PENDING

\* C14: in a run that is not dry, the context-loading commands are run one
\* by one in document order, none twice; all of them have been run before the
\* first group leaves pending, none is run after a group has started, and
\* when the run ends each of them has been run exactly once.
C14_ContextBeforeGroups ==
    /\ [](/\ Len(context_log) <= Len(context_loading)
          /\ \A i \in DOMAIN context_log : context_log[i].index = i)
    /\ [](SomeGroupStarted => Len(context_log) = Len(context_loading))
    /\ [][SomeGroupStarted => context_log' = context_log]_vars
    /\ []((ParsedRun /\ pc \in {"done", "crashed"}) =>
             Len(context_log) = Len(context_loading))

\* a group is in progress after two context-loading commands have been run
C14_Witness ==
    /\ Len(context_loading) = 2
    /\ Len(context_log) = 2
    /\ context_log[1].index = 1
    /\ context_log[2].index = 2
    /\ \E g \in Groups : gstatus[g] = IN_PROGRESS

\* C15: a dry run runs no context-loading, step or verify command, writes no
\* status and leaves the plan file as it is, leaves every group and every
\* task pending and the completed and failed sets empty, and ends right
\* after the parse, with success when the plan file could be parsed.
C15_DryRunChangesNothing ==
    /\ [](dry_run =>
             /\ commands_run = 0
             /\ context_log = <<>>
             /\ \A g \in Groups : command_log[g] = <<>>
             /\ status_writes = <<>>
             /\ \A g \in Groups :
                   /\ gstatus[g] = PENDING
                   /\ \A t \in Tasks(g) : tstatus[g][t] = PENDING
             /\ completed_groups = {}
             /\ failed_groups = {}
             /\ pc \in {"parse", "done"}
             /\ (pc = "done" /\ plan_file.exists) => result = "True")
    /\ [][dry_run => plan_file' = plan_file]_vars

\* a dry run of a plan with a context-loading command and a task with a
\* command step has ended
C15_Witness ==
    /\ dry_run
    /\ pc = "done"
    /\ result = "True"
    /\ context_loading # <<>>
    /\ \E g \in Groups : \E t \in Tasks(g) :
          /\ \E i \in DOMAIN task_groups[g].tasks[t].steps :
                IsCommandStep(task_groups[g].tasks[t].steps[i])
          /\ task_groups[g].tasks[t].verify # ""

\* the positions of the status markers of a text
Markers(text) == {i \in DOMAIN text : text[i] = "M"}

\* the marker at position i is followed, after any whitespace, by the word
\* status and nothing more of a word
MarkerReads(text, i, status) ==
    LET j == SkipSpace(text, i + 1)
    IN  /\ j <= Len(text)
        /\ text[j] = status
        /\ SkipWord(text, j) = j + 1

\* a status has just been written to the plan file
JustWritten == pc = "parse" /\ status_writes # <<>>

\* C16 as stated: writing status S to a text whose status markers all read
\* S leaves the text as it was, and writing S once more to the text just
\* written leaves it as it is.
C16_StatusWriteIdempotent ==
    JustWritten =>
        LET S == Last(status_writes)
        IN  /\ (Markers(content) # {}
                /\ \A i \in Markers(content) : MarkerReads(content, i, S)) =>
                   plan_file.text = content
            /\ RewriteStatus(plan_file.text, S) = plan_file.text

\* the text with the word after every status marker replaced by status, and
\* every other token as it is
RECURSIVE ReplaceWordOnly(_, _, _)
ReplaceWordOnly(text, i, status) ==
    IF i > Len(text) THEN <<>>
    ELSE IF text[i] = "M"
              /\ SkipSpace(text, i + 1) <= Len(text)
              /\ text[SkipSpace(text, i + 1)] \in WordTokens
         THEN SubSeq(text, i, SkipSpace(text, i + 1) - 1) \o <<status>>
                  \o ReplaceWordOnly(text, SkipWord(text, SkipSpace(text, i + 1)),
                                     status)
         ELSE <<text[i]>> \o ReplaceWordOnly(text, i + 1, status)

\* C17 as stated: the text written differs from the text as parsed in the
\* status word after the status marker and in nothing else.
C17_OnlyStatusWordChanges ==
    JustWritten =>
        plan_file.text = ReplaceWordOnly(content, 1, Last(status_writes))

\* _build_dependencies has returned
DependenciesBuilt == ContextLoadingOver

\* C18 as stated: once the dependencies are built, the first group has no
\* dependency, every later group has exactly one, the name of the group
\* before it, and no group has its own name among its dependencies.
C18_ChainDependencies ==
    DependenciesBuilt =>
        \A i \in Groups :
            /\ task_groups[i].dependencies =
                   IF i = 1 THEN <<>> ELSE <<task_groups[i - 1].name>>
            /\ task_groups[i].name \notin DependenciesOf(i)

\* the scheduler is at the top of its loop, no pending group is ready, and
\* the completed set is smaller than the list of groups
NoGroupReady ==
    /\ pc = "schedule"
    /\ ReadyGroups = <<>>
    /\ Cardinality(completed_groups) < Len(task_groups)

\* C19: whenever no pending group is ready while the completed set does not
\* cover all groups, the scheduler logs the no-ready-groups error and
\* returns failure; from then on no group changes status and no command is
\* run, and the run ends in failure with FAILED written.
C19_NoReadyGroupsFails ==
    /\ [][NoGroupReady =>
             /\ error_message' = "no_ready_groups"
             /\ success' = "False"
             /\ pc' = "update_final"]_vars
    /\ [][error_message = "no_ready_groups" =>
             /\ gstatus' = gstatus
             /\ tstatus' = tstatus
             /\ commands_run' = commands_run
             /\ batches_run' = batches_run]_vars
    /\ []((error_message = "no_ready_groups" /\ pc = "done") =>
             /\ result = "False"
             /\ Last(status_writes) = "FAILED")

\* a run has ended on the no-ready-groups error: every group was executed,
\* and two groups of one name left the completed set short of the list
C19_Witness ==
    /\ pc = "done"
    /\ error_message = "no_ready_groups"
    /\ result = "False"
    /\ ReadyGroups = <<>>
    /\ Cardinality(completed_groups) < Len(task_groups)
    /\ \A g \in Groups : gstatus[g] = COMPLETED

\* the iteration budget of the specification
IterationBudget == 2 * Len(task_groups)

\* C20: a run hands at most 2 x number-of-groups batches to a group runner;
\* a pass of the loop that finds the budget used up while the completed set
\* is short of the list of groups logs the possible-circular-dependency
\* error and returns failure, and that error is logged in no other case.
C20_IterationBudget ==
    /\ [](batches_run <= IterationBudget /\ iteration <= IterationBudget)
    /\ [][(/\ pc = "schedule"
           /\ Cardinality(completed_groups) < Len(task_groups)
           /\ iteration >= IterationBudget) =>
             /\ error_message' = "max_iterations"
             /\ success' = "False"
             /\ pc' = "update_final"
             /\ batches_run' = batches_run]_vars
    /\ [](error_message = "max_iterations" =>
             /\ iteration >= IterationBudget
             /\ Cardinality(completed_groups) < Len(task_groups)
             /\ success = "False")

\* a run of a plan with several groups has ended after as many batches as
\* there are groups, within the budget
C20_Witness ==
    /\ pc = "done"
    /\ Len(task_groups) >= 2
    /\ batches_run = Len(task_groups)
    /\ iteration = Len(task_groups)
    /\ batches_run < IterationBudget

\* the groups of the current batch are run by pool workers
WorkersAtWork == pc \in {"parallel", "shutdown"}

\* C21 as stated: the completed and the failed set are written by the
\* scheduler thread only, never while pool workers are running the groups of
\* a batch.
C21_SetsWrittenByScheduler ==
    [][(completed_groups' # completed_groups \/ failed_groups' # failed_groups)
          => ~WorkersAtWork]_vars

\* the next thing the thread running group g does
WorkerCanStep(g) ==
    \/ ENABLED TaskStart(g)
    \/ ENABLED RunStep(g)
    \/ ENABLED RunVerify(g)
    \/ ENABLED GroupFinish(g)

\* C22: cancellation reaches only the groups of the batch no worker has
\* taken: a cancelled group is pending and stays so; a group that is being
\* run is never stopped from outside, it can always take its next step, it
\* leaves the running state only by returning, and no group is left in
\* progress when the run ends.
C22_CancelStopsOnlyUnstarted ==
    /\ [][\A g \in DOMAIN run :
             /\ run[g] = "running" => run'[g] \in {"running", "returned"}
             /\ run'[g] = "cancelled" => run[g] \in {"queued", "cancelled"}]_vars
    /\ [](\A g \in DOMAIN run :
             /\ run[g] = "cancelled" => gstatus[g] = PENDING
             /\ run[g] = "running" => WorkerCanStep(g))
    /\ [](pc = "done" => \A g \in Groups : gstatus[g] # IN_PROGRESS)

\* a group of a concurrent batch has failed and the futures have been
\* cancelled while a sibling that had started has all its tasks before it
C22_Witness ==
    /\ pc = "shutdown"
    /\ \E g, h \in Range(batch) :
          /\ gstatus[g] = FAILED
          /\ run[h] = "running"
          /\ gstatus[h] = IN_PROGRESS
          /\ Tasks(h) # {}
          /\ \A t \in Tasks(h) : tstatus[h][t] = PENDING

\* C23 as stated: a process that was not asked for the list of plans exits
\* with status 0 exactly when the run succeeded, and with status 1 after
\* every failure, a missing --plan argument included.
C23_ExitStatus ==
    (pc = "exited" /\ ~args.list) =>
        /\ exit_status = 0 <=> result = "True"
        /\ result # "True" => exit_status = 1

\* the text of the Tasks section has been parsed
TasksParsed == pc = "parsed"

\* the Tasks section: the text from the line after "## Tasks" to the next
\* heading of the same level that starts a line
TasksSection == TrimTasks(plan_file.lines)

\* the positions of the sub-headings and of the task headings of a text, in
\* document order
SubHeadings(lines) ==
    Filter([i \in DOMAIN lines |-> i], {i \in DOMAIN lines : lines[i].kind = "sub"})

TaskHeadings(lines) ==
    Filter([i \in DOMAIN lines |-> i], {i \in DOMAIN lines : lines[i].kind = "task"})

\* the number of sub-headings before line i
SubHeadingsBefore(lines, i) ==
    Cardinality({j \in DOMAIN lines : j < i /\ lines[j].kind = "sub"})

\* C24 as stated: a Tasks section with k sub-headings parses to k + 1 groups,
\* the implicit General group and one per sub-heading, named in document
\* order, and every task is in the group of the nearest sub-heading before
\* its heading.
C24_GroupPerSubHeading ==
    TasksParsed =>
        LET lines == TasksSection
            subs == SubHeadings(lines)
        IN  /\ Len(task_groups) = Len(subs) + 1
            /\ task_groups[1].name = "General"
            /\ \A g \in DOMAIN task_groups :
                  /\ g > 1 => task_groups[g].name = lines[subs[g - 1]].name
                  /\ \A t \in DOMAIN task_groups[g].tasks :
                        g = SubHeadingsBefore(lines, task_groups[g].tasks[t].line) + 1

\* the heading lines of the tasks of the model, group after group
RECURSIVE ModelTaskLines(_)
ModelTaskLines(groups) ==
    IF groups = <<>> THEN <<>>
    ELSE [t \in DOMAIN groups[1].tasks |-> groups[1].tasks[t].line]
             \o ModelTaskLines(Tail(groups))

\* C25 as stated: the tasks of the model, group after group, are the task
\* headings of the Tasks section, one task per heading, in document order,
\* each with the name of its heading.
C25_TaskPerHeading ==
    TasksParsed =>
        /\ ModelTaskLines(task_groups) = TaskHeadings(TasksSection)
        /\ \A g \in DOMAIN task_groups : \A t \in DOMAIN task_groups[g].tasks :
              task_groups[g].tasks[t].name =
                  TasksSection[task_groups[g].tasks[t].line].name

\* the line of the first heading after line i, or the line after the last
NextHeading(lines, i) ==
    LET later == {j \in DOMAIN lines : j > i /\ lines[j].kind \in {"task", "sub"}}
    IN  IF later = {} THEN Len(lines) + 1
        ELSE CHOOSE j \in later : \A h \in later : j <= h

\* the checklist lines between a task heading at line i and the next heading
\* that stand under a Steps label of that block
OwnSteps(lines, i) ==
    LET h == NextHeading(lines, i)
        mine == {j \in (i + 1)..(h - 1) :
                    /\ lines[j].kind = "step"
                    /\ \E k \in (i + 1)..(j - 1) : lines[k].kind = "steps"}
        order == Filter([j \in DOMAIN lines |-> j], mine)
    IN  [k \in DOMAIN order |-> lines[order[k]].text]

\* C26 as stated: a task with no Verify line between its heading and the next
\* heading has an empty verify command and the steps of its own block,
\* whether or not the block has a Steps label.
C26_HeadingClosesTask ==
    TasksParsed =>
        \A g \in DOMAIN task_groups : \A t \in DOMAIN task_groups[g].tasks :
            LET task == task_groups[g].tasks[t]
                h == NextHeading(TasksSection, task.line)
            IN  (\A j \in (task.line + 1)..(h - 1) :
                     TasksSection[j].kind # "verify") =>
                    /\ task.verify = ""
                    /\ task.steps = OwnSteps(TasksSection, task.line)

\* C27 as stated: the ids of the tasks of one group are pairwise distinct,
\* and the id of a task is made of the number its heading declares.
C27_TaskIdsDistinct ==
    TasksParsed =>
        \A g \in DOMAIN task_groups :
            /\ \A t \in DOMAIN task_groups[g].tasks :
                  task_groups[g].tasks[t].id =
                      TasksSection[task_groups[g].tasks[t].line].num
            /\ \A t, u \in DOMAIN task_groups[g].tasks :
                  t # u => task_groups[g].tasks[t].id # task_groups[g].tasks[u].id

\* C28: a task's error is set only when one of the task's own commands, a
\* step or the verify command, has failed; a task that is pending or
\* completed has no error.
C28_ErrorOnlyOnFailure ==
    \A g \in Groups : \A t \in Tasks(g) :
        /\ terror[g][t] # "none" =>
              \E k \in DOMAIN TaskLog(g, t) : TaskLog(g, t)[k].outcome # "ok"
        /\ tstatus[g][t] \in {PENDING, COMPLETED} => terror[g][t] = "none"

\* a group holds a completed task, whose commands all succeeded, with no
\* error, and a task one of whose commands failed, with an error
C28_Witness ==
    \E g \in Groups : \E t, u \in Tasks(g) :
        /\ tstatus[g][t] = COMPLETED
        /\ TaskLog(g, t) # <<>>
        /\ terror[g][t] = "none"
        /\ terror[g][u] # "none"
        /\ TaskLog(g, u) # <<>>

\* the same group names in the same order and, group by group, the same task
\* names, steps and verify commands
SameModel(a, b) ==
    /\ Len(a) = Len(b)
    /\ \A g \in DOMAIN a :
          /\ a[g].name = b[g].name
          /\ Len(a[g].tasks) = Len(b[g].tasks)
          /\ \A t \in DOMAIN a[g].tasks :
                /\ a[g].tasks[t].name = b[g].tasks[t].name
                /\ a[g].tasks[t].steps = b[g].tasks[t].steps
                /\ a[g].tasks[t].verify = b[g].tasks[t].verify

\* C29 as stated: the text rendered from the parsed groups and tasks parses
\* to the same group names in the same order with the same task names,
\* steps and verify commands.
C29_ParseRoundTrip ==
    pc = "rendered" => SameModel(ParseTasksLines(plan_file.lines), task_groups)

\* C30 as stated: when a run has ended and no step or verify command has
\* failed, every group is completed, the result is success and the last
\* status written is COMPLETED, also when two groups have the same name.
C30_SuccessWhenAllCommandsSucceed ==
    (ParsedRun /\ pc = "done" /\ ~SomeTaskFailed) =>
        /\ \A g \in Groups : gstatus[g] = COMPLETED
        /\ result = "True"
        /\ Last(status_writes) = "COMPLETED"

LastCommandFailed(g) ==
    /\ command_log[g] # <<>>
    /\ Last(command_log[g]).outcome # "ok"

\* C32 as stated: a failed task command (nonzero status, timeout, spawn
\* error) is turned into a failed group and a False group result and never
\* into an exception, in a batch of one and in a concurrent batch; and once
\* the run has ended, a group whose worker raised in a concurrent batch is
\* failed, is in failed_groups, and the run has failed.
C32_FailuresBecomeFailedGroups ==
    /\ \A g \in Groups :
          LastCommandFailed(g) =>
              /\ run[g] # "raised"
              /\ pc # "crashed"
              /\ gstatus[g] = FAILED
              /\ group_result[g] = "False"
    /\ pc = "done" =>
          \A g \in Groups :
              run[g] = "raised" =>
                  /\ gstatus[g] = FAILED
                  /\ task_groups[g].name \in failed_groups
                  /\ result = "False"

ReturnedFromFailedBatch ==
    /\ pc \in {"update_final", "done"}
    /\ Len(batch) > 1
    /\ \E g \in Range(batch) : gstatus[g] = FAILED

DistinctNames ==
    \A g, h \in Groups : g # h => task_groups[g].name # task_groups[h].name

\* C35 as stated: when the groups have pairwise distinct names, then for
\* every batch size every batch the scheduler chooses has exactly one group,
\* the concurrent runner is never entered, at most one group is in_progress,
\* and a group has left pending only if its predecessor is completed.
C35_ChainRunsOneAtATime ==
    (DependenciesBuilt /\ DistinctNames) =>
        /\ batches_run >= 1 => Len(batch) = 1
        /\ pc \notin {"parallel", "shutdown", "crashed"}
        /\ Cardinality(InProgressGroups) <= 1
        /\ \A g \in Groups :
              (g > 1 /\ gstatus[g] # PENDING) => gstatus[g - 1] = COMPLETED

LeftPending == {g \in Groups : gstatus[g] # PENDING}

\* C36: the possible-circular-dependency error is never logged; the loop
\* counter never exceeds the number of groups nor the number of groups that
\* have left pending; a pass of the loop that goes on to the next one has run
\* a batch of at least one group, all completed; and a pass that finds no
\* ready group while groups are incomplete logs the no-ready-groups error.
C36_BudgetNeverTheCause ==
    /\ [](error_message # "max_iterations")
    /\ [](iteration <= Len(task_groups) /\ iteration <= Cardinality(LeftPending))
    /\ [][iteration' # iteration =>
            /\ iteration' = iteration + 1
            /\ batch # <<>>
            /\ \A g \in Range(batch) : gstatus[g] = COMPLETED]_vars
    /\ [][NoGroupReady =>
            error_message' = "no_ready_groups" /\ success' = "False"]_vars

\* a run has gone through as many passes as there are groups, all groups
\* have left pending, and it ended on the no-ready-groups error
C36_Witness ==
    /\ pc = "done"
    /\ Len(task_groups) >= 2
    /\ iteration = Len(task_groups)
    /\ error_message = "no_ready_groups"

\* C37 as stated: always, completed_groups and failed_groups are disjoint, a
\* name is in completed_groups exactly when a group of that name is
\* completed, and a name is in failed_groups exactly when a group of that
\* name is failed.
C37_SetsMatchStatuses ==
    /\ completed_groups \cap failed_groups = {}
    /\ \A n \in GroupNames :
          /\ n \in completed_groups <=>
                \E g \in Groups : task_groups[g].name = n /\ gstatus[g] = COMPLETED
          /\ n \in failed_groups <=>
                \E g \in Groups : task_groups[g].name = n /\ gstatus[g] = FAILED

\* C38 as stated: for every batch size, once a non-dry run of a plan that
\* parsed has ended, the last status written to the plan file is COMPLETED
\* or FAILED, never IN_PROGRESS.
C38_NeverLeftInProgress ==
    RunEnded =>
        /\ status_writes # <<>>
        /\ Last(status_writes) \in {"COMPLETED", "FAILED"}

\* group g is in the hands of a runner: its work item is queued or running
InHand(g) == run[g] \in {"queued", "running"}

\* C39: a batch is made of groups that are pending and in no runner's hands;
\* a group that has left pending never is pending again, and a pending group
\* that was given to a runner is never free to be chosen again, so a group is
\* chosen and started at most once; the status of a group and of its tasks
\* changes only in a step of the one runner that holds the group, and no
\* step changes the statuses of two groups.
C39_GroupRunsOnce ==
    /\ [][batches_run' # batches_run =>
            \A g \in Range(batch') : gstatus[g] = PENDING /\ run[g] = "idle"]_vars
    /\ [][\A g \in Groups :
            /\ gstatus[g] # PENDING => gstatus'[g] # PENDING
            /\ (gstatus[g] # IN_PROGRESS /\ gstatus'[g] = IN_PROGRESS) =>
                  gstatus[g] = PENDING /\ run[g] = "queued" /\ run'[g] = "running"
            /\ (run[g] # "idle" /\ gstatus'[g] = PENDING) => run'[g] # "idle"]_vars
    /\ [][\A g \in Groups :
            (gstatus'[g] # gstatus[g] \/ tstatus'[g] # tstatus[g]) =>
                /\ InHand(g)
                /\ pc' = pc
                /\ \A h \in Groups \ {g} :
                      gstatus'[h] = gstatus[h] /\ tstatus'[h] = tstatus[h]]_vars

\* two groups of a concurrent batch are run by two workers at the same time,
\* each at work on a task of its own
C39_Witness ==
    /\ pc = "parallel"
    /\ \E g, h \in Range(batch) :
          /\ g # h
          /\ run[g] = "running" /\ run[h] = "running"
          /\ wstep[g] >= 1 /\ wstep[h] >= 1
          /\ tstatus[g][wtask[g]] = IN_PROGRESS
          /\ tstatus[h][wtask[h]] = IN_PROGRESS

====
